---- MODULE Spec2Model ----
(***************************************************************************)
(* State-machine model of the App component (src/unnamed/part_000): the    *)
(* link/asset frontier, the tool-call approval protocol, the streamed      *)
(* reply accumulation and the cancellable bulk scan.                       *)
(*                                                                         *)
(* JavaScript runs one handler segment at a time: an action of this model  *)
(* is the code that runs between two suspension points (await), including  *)
(* the continuations that the same settled promise resumes.  React state   *)
(* updaters (setX(prev => ...)) are applied in the order they were queued, *)
(* so a variable below holds the committed React state.                    *)
(***************************************************************************)
EXTENDS Integers, Sequences, FiniteSets, TLC

(***************************************************************************)
(* Bounds of the model.                                                    *)
(***************************************************************************)
MaxTasks == 3
MaxRefs == 2
MaxChunks == 2
MaxResets == 1
MaxParts == 2

(***************************************************************************)
(* Values.  A JavaScript string is a sequence of characters; undefined is  *)
(* the distinguished string Undefined for string-typed fields, and the     *)
(* empty sequence None for optional objects (Some(x) is <<x>>).            *)
(***************************************************************************)
Undefined == "undefined"
None == <<>>
Some(x) == <<x>>

Urls == {"A", "B", "C"}
SeedUrls == {"A"}
AssetUrls == {"i1"}

\* All sequences over S of length at most n.
RECURSIVE SeqsUpTo(_, _)
SeqsUpTo(S, n) ==
    IF n = 0 THEN {<<>>}
    ELSE LET shorter == SeqsUpTo(S, n - 1)
         IN  shorter \cup {Append(s, x) : s \in {t \in shorter : Len(t) = n - 1}, x \in S}

(***************************************************************************)
(* JavaScript Map: insertion-ordered; set() on a present key keeps its     *)
(* position.  A map is a sequence of entries [k, v].                       *)
(***************************************************************************)
MapHas(m, k) == \E i \in 1..Len(m) : m[i].k = k
MapGet(m, k) == m[CHOOSE i \in 1..Len(m) : m[i].k = k].v
MapSet(m, k, v) ==
    IF MapHas(m, k)
    THEN [i \in 1..Len(m) |-> IF m[i].k = k THEN [k |-> k, v |-> v] ELSE m[i]]
    ELSE Append(m, [k |-> k, v |-> v])
MapKeys(m) == {m[i].k : i \in 1..Len(m)}

(***************************************************************************)
(* types.ts: link records, assets, chat messages.  A record always has all *)
(* its fields; a field the JavaScript object lacks holds Undefined.        *)
(***************************************************************************)
LinkStatus == {"pending", "scanning", "scanned", "failed"}
AppStatus == {"input", "scanning", "chat"}

EmptyRec ==
    [url |-> Undefined, status |-> Undefined, title |-> Undefined,
     textContent |-> Undefined, htmlContent |-> Undefined]

\* Object spread { ...base, ...patch }: patch is a record of some of the fields.
Spread(base, patch) ==
    LET pick(f) == IF f \in DOMAIN patch THEN patch[f] ELSE base[f]
    IN  [url |-> pick("url"), status |-> pick("status"), title |-> pick("title"),
         textContent |-> pick("textContent"), htmlContent |-> pick("htmlContent")]

PendingLink(linkUrl) ==
    Spread(EmptyRec, [url |-> linkUrl, status |-> "pending", title |-> "Unknown Title"])

\* JavaScript truthiness of an optional string.
Truthy(str) == str # Undefined /\ str # ""

(***************************************************************************)
(* Tool calls.  args always has every argument field; a tool reads its own.*)
(***************************************************************************)
NoArgs == [urls |-> <<>>, url |-> Undefined, dataType |-> Undefined, prompt |-> Undefined]

\* The url lists a scanPages proposal may carry.
UrlLists == {<<"A">>, <<"B">>, <<"B", "C">>}

\* The page an extraction or analysis proposal may name.
ToolUrls == {"B"}

ScanPagesCalls == {[name |-> "scanPages", args |-> [NoArgs EXCEPT !.urls = us]] : us \in UrlLists}
ExtractCalls ==
    {[name |-> "extractDataFromPage", args |-> [NoArgs EXCEPT !.url = u, !.dataType = "json-ld"]] :
        u \in ToolUrls}
SeoCalls == {[name |-> "performSeoAnalysis", args |-> [NoArgs EXCEPT !.url = u]] : u \in ToolUrls}
ImageCalls ==
    {[name |-> "analyzeImageFromUrl", args |-> [NoArgs EXCEPT !.url = u, !.prompt = "describe"]] :
        u \in AssetUrls}
BulkCalls == {[name |-> "scanAllPendingPages", args |-> NoArgs]}
UnknownCalls == {[name |-> "summarizeSite", args |-> NoArgs]}

\* A function-call object as held by a transcript turn: ref is its identity.
NoFunctionCall == [ref |-> 0, name |-> "", args |-> NoArgs]
FunctionCall(ref, call) == [ref |-> ref, name |-> call.name, args |-> call.args]

TextMessage(text, sender) ==
    [type |-> "text", text |-> text, sender |-> sender, functionCall |-> NoFunctionCall]
FunctionCallMessage(fc) ==
    [type |-> "function_call", text |-> <<>>, sender |-> "bot", functionCall |-> fc]

EmptyResponseNotice == <<"I received a response, but it was empty. Can you try rephrasing?">>
DeclineNotice == <<"Okay, I won't proceed with that action. How else can I help?">>

(***************************************************************************)
(* processStreamAndAddMessages, lines 52-96.  A chunk holds the parts of   *)
(* its first candidate (the text of a part is "" when it has none) and the *)
(* value of its functionCalls property: undefined (None) or a list.        *)
(***************************************************************************)
TextPart(chars) == [text |-> chars]
Chunk(parts, calls) == [parts |-> parts, functionCalls |-> calls]

\* Lines 58-64: the text of a chunk's parts, in part order ("" is falsy and adds nothing).
RECURSIVE PartsText(_)
PartsText(parts) ==
    IF parts = <<>> THEN <<>>
    ELSE (IF Head(parts).text # <<>> THEN Head(parts).text ELSE <<>>) \o PartsText(Tail(parts))

EmptyAcc == [accumulatedText |-> <<>>, accumulatedFunctionCalls |-> None]

\* Lines 56-69: one iteration of the for-await loop.  Line 66 tests the list for
\* truthiness, and every array is truthy.
ConsumeChunk(acc, chunk) ==
    [accumulatedText |-> acc.accumulatedText \o PartsText(chunk.parts),
     accumulatedFunctionCalls |->
        IF chunk.functionCalls # None THEN chunk.functionCalls
        ELSE acc.accumulatedFunctionCalls]

IsSpace(c) == c = " "

\* String.prototype.trim.
RECURSIVE TrimStart(_)
TrimStart(str) ==
    IF str # <<>> /\ IsSpace(Head(str)) THEN TrimStart(Tail(str)) ELSE str
RECURSIVE TrimEnd(_)
TrimEnd(str) ==
    IF str # <<>> /\ IsSpace(str[Len(str)]) THEN TrimEnd(SubSeq(str, 1, Len(str) - 1)) ELSE str
Trim(str) == TrimEnd(TrimStart(str))

\* Lines 32-34, addMessage: the updater appends the turn.  The random id of a turn
\* is never read by App and is left out.
addMessage(prev, message) == Append(prev, message)

\* Line 84, accumulatedFunctionCalls[0]: the first object of the list, with
\* identity ref, and undefined (NoFunctionCall) for an empty list.
FirstCall(list, ref) == IF list = <<>> THEN NoFunctionCall ELSE FunctionCall(ref, list[1])

\* Lines 71-95: the turns appended once the stream has ended; ref is the identity
\* of the function-call object taken from the captured list.
processStreamAndAddMessages(prev, acc, ref) ==
    LET trimmedText == Trim(acc.accumulatedText)
        calls == acc.accumulatedFunctionCalls
        h1 == IF trimmedText # <<>> THEN addMessage(prev, TextMessage(trimmedText, "bot")) ELSE prev
        h2 == IF calls # None
              THEN addMessage(h1, FunctionCallMessage(FirstCall(calls[1], ref)))
              ELSE h1
    IN  IF trimmedText = <<>> /\ calls = None
        THEN addMessage(h2, TextMessage(EmptyResponseNotice, "bot"))
        ELSE h2

(***************************************************************************)
(* The frontier: lines 36-50 and the link registration of lines 109-115,   *)
(* 155-162 and 256-263.                                                    *)
(***************************************************************************)
\* Lines 36-38: prev.get(url) is undefined for an unknown url and spreads to nothing.
updateLinkStatus(prev, url, st, data) ==
    MapSet(prev, url,
           Spread(Spread(IF MapHas(prev, url) THEN MapGet(prev, url) ELSE EmptyRec,
                         [status |-> st]),
                  data))

\* Lines 156-161 without the test of has(linkUrl).
OverwriteLink(prev, linkUrl) == MapSet(prev, linkUrl, PendingLink(linkUrl))

\* Lines 156-161 (and 257-262, 112-114): one discovered link.
RegisterLink(prev, linkUrl) ==
    IF ~MapHas(prev, linkUrl) THEN MapSet(prev, linkUrl, PendingLink(linkUrl)) ELSE prev

\* links.forEach(...)
RECURSIVE RegisterLinks(_, _)
RegisterLinks(prev, links) ==
    IF links = <<>> THEN prev
    ELSE RegisterLinks(RegisterLink(prev, Head(links)), Tail(links))

\* Lines 43-47 without the test of has(asset.url).
OverwriteAsset(newMap, asset) == MapSet(newMap, asset.url, asset)

\* Lines 43-47: one asset of the batch.
AddAsset(newMap, asset) ==
    IF ~MapHas(newMap, asset.url) THEN MapSet(newMap, asset.url, asset) ELSE newMap

\* Lines 40-50.
RECURSIVE addDiscoveredAssets(_, _)
addDiscoveredAssets(prev, assets) ==
    IF assets = <<>> THEN prev
    ELSE addDiscoveredAssets(AddAsset(prev, Head(assets)), Tail(assets))

\* Lines 154-162 and 255-263: a page scan succeeded.
ApplyScanned(prev, url, r) ==
    RegisterLinks(
        updateLinkStatus(prev, url, "scanned",
                         [textContent |-> r.textContent, title |-> r.title,
                          htmlContent |-> r.htmlContent]),
        r.links)

\* Lines 107-115: the link map of a seed scan.
SeedLinksMap(url, r) ==
    RegisterLinks(
        MapSet(<<>>, url,
               [url |-> url, status |-> "scanned", title |-> r.title,
                textContent |-> r.textContent, htmlContent |-> r.htmlContent]),
        r.links)

(***************************************************************************)
(* The environment of one session: the site (what scanPage may report),    *)
(* what the planner's replies may hold, and what the user does besides     *)
(* submitting the seed.  A behaviour keeps the environment it starts with. *)
(***************************************************************************)
\* Replies of one chunk holding one tool call.
CallReplies(calls) == {<<Chunk(<<>>, Some(<<c>>))>> : c \in calls}

TextReply == <<Chunk(<<TextPart(<<"a">>)>>, None)>>

\* The chunks of a reply that mixes text fragments and tool-call lists.
StreamChunks ==
    LET bulk == CHOOSE c \in BulkCalls : TRUE
        other == CHOOSE c \in UnknownCalls : TRUE
    IN  {Chunk(parts, calls) :
            parts \in SeqsUpTo({TextPart(<<"a">>), TextPart(<<" ">>), TextPart(<<>>)}, MaxParts),
            calls \in {None, Some(<<>>), Some(<<bulk>>), Some(<<other, bulk>>)}}

\* An environment.  replies: the chunk sequences a reply stream may yield (it may
\* also end early); chunks: the chunks of the replies that are any sequence of at
\* most MaxChunks of them; user: what the user does besides submitting the seed;
\* links, assets, markups: what a page scan may report (assets: whether it may
\* report no asset, "none", and the asset of AssetUrls, "some").
PagesEnv ==
    [replies |-> CallReplies(ScanPagesCalls), chunks |-> {},
     user |-> {"approve", "reject", "explorer", "manual"},
     links |-> {<<"B">>, <<"B", "C">>, <<"A", "C">>}, assets |-> {"none"}, markups |-> {"<html>"}]
BulkEnv ==
    [replies |-> CallReplies(BulkCalls), chunks |-> {},
     user |-> {"approve", "reject", "explorer", "manual", "bulk", "stop"},
     links |-> {<<"B">>, <<"B", "C">>}, assets |-> {"none"}, markups |-> {"<html>"}]
ToolsEnv ==
    [replies |-> CallReplies(ExtractCalls \cup SeoCalls \cup ImageCalls \cup UnknownCalls),
     chunks |-> {},
     user |-> {"approve", "reject", "explorer", "manual"},
     links |-> {<<>>, <<"B">>}, assets |-> {"none"}, markups |-> {"", "<html>"}]
TalkEnv ==
    [replies |-> {TextReply} \cup CallReplies(UnknownCalls \cup ImageCalls)
                    \cup {TextReply \o r : r \in CallReplies(UnknownCalls)},
     chunks |-> {},
     user |-> {"approve", "reject", "text", "reset"},
     links |-> {<<"B">>}, assets |-> {"none", "some"}, markups |-> {"<html>"}]
StreamEnv ==
    [replies |-> {}, chunks |-> StreamChunks,
     user |-> {"reject"},
     links |-> {<<>>}, assets |-> {"none"}, markups |-> {"<html>"}]

AssetsEnv ==
    [replies |-> CallReplies({[name |-> "scanPages", args |-> [NoArgs EXCEPT !.urls = <<"B", "C">>]]}),
     chunks |-> {},
     user |-> {"approve"},
     links |-> {<<"B", "C">>}, assets |-> {"some"}, markups |-> {"<html>"}]

Environments == {"pages", "bulk", "tools", "talk", "stream", "assets"}

Environment(e) ==
    CASE e = "pages" -> PagesEnv
      [] e = "bulk" -> BulkEnv
      [] e = "tools" -> ToolsEnv
      [] e = "talk" -> TalkEnv
      [] e = "stream" -> StreamEnv
      [] e = "assets" -> AssetsEnv

User(e) == Environment(e).user

\* s is a prefix of a reply of environment e.
IsReplyPrefix(e, s) ==
    \/ \E r \in Environment(e).replies : Len(s) <= Len(r) /\ SubSeq(r, 1, Len(s)) = s
    \/ Len(s) <= MaxChunks /\ \A i \in 1..Len(s) : s[i] \in Environment(e).chunks

ReplyChunks(e) ==
    Environment(e).chunks \cup UNION {{r[i] : i \in 1..Len(r)} : r \in Environment(e).replies}

(***************************************************************************)
(* The page fetcher, scanPage(url): what a scan may report in environment  *)
(* e.  An asset is an image on page A and a document elsewhere.            *)
(***************************************************************************)
AssetLists(e, u) ==
    (IF "none" \in Environment(e).assets THEN {<<>>} ELSE {})
    \cup
    (IF "some" \in Environment(e).assets
     THEN {<<[url |-> a, type |-> IF u = "A" THEN "image" ELSE "pdf", sourcePage |-> u]>> :
             a \in AssetUrls}
     ELSE {})

ScanResults(e, u) ==
    {[title |-> "Title", textContent |-> "text", htmlContent |-> h, links |-> ls, assets |-> as] :
        h \in Environment(e).markups, ls \in Environment(e).links, as \in AssetLists(e, u)}

(***************************************************************************)
(* State.                                                                  *)
(***************************************************************************)
VARIABLES
    status,                  \* line 16
    error,                   \* line 17
    chatHistory,             \* line 18
    discoveredLinks,         \* line 19
    discoveredAssets,        \* line 20
    isSitemapOpen,           \* line 21
    isFullScanning,          \* line 22
    fullScanAbortController, \* line 23: the controller the ref holds, 0 for null
    aborted,                 \* the controllers whose signal is aborted
    chatRef,                 \* line 25: the session the ref holds, 0 for null
    currentUrlRef,           \* line 26
    tasks,                   \* the handler invocations suspended at an await
    nextId,                  \* next identity of an invocation, session or controller
    nextRef,                 \* next identity of a function-call object
    sent,                    \* the messages handed to sendMessageStream, in order
    analyzerCalls,           \* calls of extractStructuredData and analyzeSeo so far
    resets,                  \* number of handleReset calls so far
    streamsEnded,            \* number of reply streams consumed to their end so far
    stoppedRuns,             \* the handleFullScan invocations active at a handleStopFullScan
    env                      \* the environment of the session

vars ==
    <<status, error, chatHistory, discoveredLinks, discoveredAssets, isSitemapOpen,
      isFullScanning, fullScanAbortController, aborted, chatRef, currentUrlRef, tasks,
      nextId, nextRef, sent, analyzerCalls, resets, streamsEnded,
      stoppedRuns, env>>

Null == "null"

NoEntry == [url |-> Undefined, success |-> FALSE, title |-> Undefined,
            content |-> Undefined, error |-> Undefined]

\* A suspended invocation.  kind: "seed" (handleInitialScan), "call"
\* (handleFunctionCallResponse), "chat" (handleSendMessage), "run" (handleFullScan).
\* seen holds the chunks its reply stream has yielded so far, epoch the value of
\* resets when the invocation began.
BaseTask ==
    [id |-> 0, kind |-> "", phase |-> "", fc |-> NoFunctionCall, url |-> Undefined,
     work |-> <<>>, idx |-> 0, pending |-> {}, results |-> <<>>, parent |-> 0,
     acc |-> EmptyAcc, seen |-> <<>>, epoch |-> 0]

NoPayload == [json |-> "", success |-> Undefined, entries |-> <<>>, data |-> Undefined,
              error |-> Undefined, message |-> Undefined]

\* A message handed to chatRef.current.sendMessageStream by invocation tid.
Message(kind, tid, fc, result) ==
    [session |-> chatRef, kind |-> kind, tid |-> tid, name |-> fc.name, ref |-> fc.ref,
     result |-> result]

Init ==
    /\ status = "input"
    /\ error = Null
    /\ chatHistory = <<>>
    /\ discoveredLinks = <<>>
    /\ discoveredAssets = <<>>
    /\ isSitemapOpen = FALSE
    /\ isFullScanning = FALSE
    /\ fullScanAbortController = 0
    /\ aborted = {}
    /\ chatRef = 0
    /\ currentUrlRef = ""
    /\ tasks = {}
    /\ nextId = 1
    /\ nextRef = 1
    /\ sent = <<>>
    /\ analyzerCalls = [extractStructuredData |-> 0, analyzeSeo |-> 0]
    /\ resets = 0
    /\ streamsEnded = 0
    /\ stoppedRuns = {}
    /\ env \in Environments

(***************************************************************************)
(* handleInitialScan, lines 99-134.                                        *)
(***************************************************************************)
\* Lines 100-106, up to the await of scanPage.  UrlInput is rendered in stage input.
handleInitialScan(url) ==
    /\ status = "input"
    /\ nextId <= MaxTasks
    /\ status' = "scanning"
    /\ error' = Null
    /\ currentUrlRef' = url
    /\ chatRef' = nextId
    /\ tasks' = tasks \cup {[BaseTask EXCEPT !.id = nextId, !.kind = "seed", !.phase = "scan",
                                             !.url = url, !.epoch = resets]}
    /\ nextId' = nextId + 1
    /\ UNCHANGED <<chatHistory, discoveredLinks, discoveredAssets, isSitemapOpen,
                   isFullScanning, fullScanAbortController, aborted, nextRef, sent,
                   analyzerCalls, resets,
                   streamsEnded, stoppedRuns, env>>

\* Lines 107-125: scanPage resolved.  With chatRef.current null, line 123 throws
\* and the catch of lines 129-133 runs.
SeedScanResolve(t, r) ==
    /\ t \in tasks /\ t.kind = "seed" /\ t.phase = "scan"
    /\ r \in ScanResults(env, t.url)
    /\ discoveredLinks' = SeedLinksMap(t.url, r)
    /\ discoveredAssets' = addDiscoveredAssets(discoveredAssets, r.assets)
    /\ IF chatRef # 0
       THEN /\ status' = "chat"
            /\ sent' = Append(sent, Message("seed", t.id, NoFunctionCall, NoPayload))
            /\ tasks' = (tasks \ {t}) \cup {[t EXCEPT !.phase = "stream"]}
            /\ UNCHANGED error
       ELSE /\ status' = "input"
            /\ error' = "Cannot read properties of null"
            /\ tasks' = tasks \ {t}
            /\ UNCHANGED sent
    /\ UNCHANGED <<chatHistory, isSitemapOpen, isFullScanning, fullScanAbortController,
                   aborted, chatRef, currentUrlRef, nextId, nextRef, analyzerCalls, resets,
                   streamsEnded, stoppedRuns, env>>

\* Lines 129-133 without setStatus('input').
SeedScanRejectStaying(t) ==
    /\ t \in tasks /\ t.kind = "seed" /\ t.phase = "scan"
    /\ error' = "scan error"
    /\ tasks' = tasks \ {t}
    /\ UNCHANGED <<status, chatHistory, discoveredLinks, discoveredAssets, isSitemapOpen,
                   isFullScanning, fullScanAbortController, aborted, chatRef, currentUrlRef,
                   nextId, nextRef, sent, analyzerCalls, resets,
                   streamsEnded, stoppedRuns, env>>

\* Lines 129-133: scanPage rejected.
SeedScanReject(t) ==
    /\ t \in tasks /\ t.kind = "seed" /\ t.phase = "scan"
    /\ error' = "scan error"
    /\ status' = "input"
    /\ tasks' = tasks \ {t}
    /\ UNCHANGED <<chatHistory, discoveredLinks, discoveredAssets, isSitemapOpen,
                   isFullScanning, fullScanAbortController, aborted, chatRef, currentUrlRef,
                   nextId, nextRef, sent, analyzerCalls, resets,
                   streamsEnded, stoppedRuns, env>>

(***************************************************************************)
(* The reply stream of one exchange, lines 52-96, consumed by the          *)
(* invocation that sent the message.                                       *)
(***************************************************************************)
\* acc holds a list with a function-call object in it.
HoldsCall(acc) ==
    acc.accumulatedFunctionCalls # None /\ acc.accumulatedFunctionCalls[1] # <<>>

\* Function-call objects already created or captured by a stream in progress.
RefsCommitted == (nextRef - 1) + Cardinality({t \in tasks : HoldsCall(t.acc)})

\* Lines 56-69: the stream yields a chunk.
StreamChunk(t, chunk) ==
    /\ t \in tasks /\ t.phase = "stream"
    /\ IsReplyPrefix(env, Append(t.seen, chunk))
    /\ \/ ~HoldsCall(ConsumeChunk(t.acc, chunk))
       \/ HoldsCall(t.acc)
       \/ RefsCommitted < MaxRefs
    /\ tasks' = (tasks \ {t}) \cup
                {[t EXCEPT !.acc = ConsumeChunk(t.acc, chunk), !.seen = Append(t.seen, chunk)]}
    /\ UNCHANGED <<status, error, chatHistory, discoveredLinks, discoveredAssets,
                   isSitemapOpen, isFullScanning, fullScanAbortController, aborted, chatRef,
                   currentUrlRef, nextId, nextRef, sent, analyzerCalls, resets,
                   streamsEnded, stoppedRuns, env>>

\* Lines 71-95: the stream ended.
StreamEnd(t) ==
    /\ t \in tasks /\ t.phase = "stream"
    /\ chatHistory' = processStreamAndAddMessages(chatHistory, t.acc, nextRef)
    /\ nextRef' = IF HoldsCall(t.acc) THEN nextRef + 1 ELSE nextRef
    /\ tasks' = tasks \ {t}
    /\ streamsEnded' = streamsEnded + 1
    /\ UNCHANGED <<status, error, discoveredLinks, discoveredAssets, isSitemapOpen,
                   isFullScanning, fullScanAbortController, aborted, chatRef, currentUrlRef,
                   nextId, sent, analyzerCalls, resets, stoppedRuns, env>>

\* sendMessageStream or the stream itself fails: handleInitialScan catches it
\* (lines 129-133), the other handlers let the rejection go.
StreamFail(t) ==
    /\ t \in tasks /\ t.phase = "stream"
    /\ tasks' = tasks \ {t}
    /\ IF t.kind = "seed"
       THEN error' = "stream error" /\ status' = "input"
       ELSE UNCHANGED <<error, status>>
    /\ UNCHANGED <<chatHistory, discoveredLinks, discoveredAssets, isSitemapOpen,
                   isFullScanning, fullScanAbortController, aborted, chatRef, currentUrlRef,
                   nextId, nextRef, sent, analyzerCalls, resets,
                   streamsEnded, stoppedRuns, env>>

(***************************************************************************)
(* handleSendMessage, lines 229-234.  Chat is rendered in stage chat.      *)
(***************************************************************************)
UserText == <<"h", "i">>

handleSendMessage(text) ==
    /\ status = "chat"
    /\ chatRef # 0
    /\ nextId <= MaxTasks
    /\ chatHistory' = addMessage(chatHistory, TextMessage(text, "user"))
    /\ sent' = Append(sent, Message("text", nextId, NoFunctionCall, NoPayload))
    /\ tasks' = tasks \cup {[BaseTask EXCEPT !.id = nextId, !.kind = "chat",
                                             !.phase = "stream", !.epoch = resets]}
    /\ nextId' = nextId + 1
    /\ UNCHANGED <<status, error, discoveredLinks, discoveredAssets, isSitemapOpen,
                   isFullScanning, fullScanAbortController, aborted, chatRef, currentUrlRef,
                   nextRef, analyzerCalls, resets,
                   streamsEnded, stoppedRuns, env>>

(***************************************************************************)
(* handleFunctionCallResponse, lines 136-226.                              *)
(***************************************************************************)
NoData == <<>>

\* Line 137 with the filter testing the type of a turn only.
RECURSIVE RemoveEveryProposal(_, _)
RemoveEveryProposal(prev, functionCall) ==
    IF prev = <<>> THEN <<>>
    ELSE (IF Head(prev).type # "function_call" THEN <<Head(prev)>> ELSE <<>>)
         \o RemoveEveryProposal(Tail(prev), functionCall)

\* Line 137 with a filter that keeps every turn.
KeepProposal(prev, functionCall) == prev

\* Line 137: the filter keeps every turn but the proposal holding this very object.
RECURSIVE RemoveProposal(_, _)
RemoveProposal(prev, functionCall) ==
    IF prev = <<>> THEN <<>>
    ELSE (IF Head(prev).type # "function_call" \/ Head(prev).functionCall.ref # functionCall.ref
          THEN <<Head(prev)>> ELSE <<>>)
         \o RemoveProposal(Tail(prev), functionCall)

\* Lines 215-225 with an empty result treated like a missing session.
RespondWithResult(ts, t, resultPayload) ==
    IF chatRef # 0 /\ resultPayload.json # ""
    THEN /\ sent' = Append(sent, [session |-> chatRef, kind |-> "functionResponse",
                                  tid |-> t.id, name |-> t.fc.name, ref |-> t.fc.ref,
                                  result |-> resultPayload])
         /\ tasks' = ts \cup {[t EXCEPT !.phase = "stream"]}
    ELSE /\ sent' = sent
         /\ tasks' = ts

\* Lines 215-225: the tool result goes to the planner when a session is open, and
\* the invocation t (with the other invocations ts) goes on to consume the reply.
Respond(ts, t, resultPayload) ==
    IF chatRef # 0
    THEN /\ sent' = Append(sent, Message("functionResponse", t.id, t.fc, resultPayload))
         /\ tasks' = ts \cup {[t EXCEPT !.phase = "stream"]}
    ELSE /\ sent' = sent
         /\ tasks' = ts

\* Line 152 applied to every link that is pending rather than to the requested urls.
MarkPendingScanning(prev, urlsToScan) ==
    [i \in 1..Len(prev) |->
        IF prev[i].v.status = "pending"
        THEN [k |-> prev[i].k, v |-> Spread(prev[i].v, [status |-> "scanning"])]
        ELSE prev[i]]

\* Line 152 for every requested url, in order: each async callback runs to its
\* first await before the next one starts.
RECURSIVE MarkScanning(_, _)
MarkScanning(prev, urlsToScan) ==
    IF urlsToScan = <<>> THEN prev
    ELSE MarkScanning(updateLinkStatus(prev, Head(urlsToScan), "scanning", NoData),
                      Tail(urlsToScan))

\* Lines 178 and 189 without the test of htmlContent.
IsScanned(links, url) ==
    \E i \in 1..Len(links) : links[i].k = url /\ links[i].v.status = "scanned"

\* Lines 178 and 189: the precondition of extraction and SEO analysis.
HasMarkup(links, url) ==
    /\ MapHas(links, url)
    /\ MapGet(links, url).status = "scanned"
    /\ Truthy(MapGet(links, url).htmlContent)

NotScannedPayload ==
    [NoPayload EXCEPT !.json = "object", !.success = "false",
                      !.error = "has not been scanned yet. Please use scanPages first."]

\* Lines 243-245.
RECURSIVE PendingUrls(_)
PendingUrls(m) ==
    IF m = <<>> THEN <<>>
    ELSE (IF Head(m).v.status = "pending" THEN <<Head(m).v.url>> ELSE <<>>)
         \o PendingUrls(Tail(m))

FullScanPayload ==
    [NoPayload EXCEPT !.json = "object", !.success = "true", !.message = "Full scan initiated."]

\* Lines 237-254 (and 270 when nothing is pending): handleFullScan up to its first
\* await.  caller is the suspended handleFunctionCallResponse invocation awaiting
\* the run (line 211), or BaseTask for a run started from the asset explorer.
FullScanStart(caller, rid, isAiTriggered) ==
    LET pendingUrls == PendingUrls(discoveredLinks)
    IN  /\ fullScanAbortController' = rid
        /\ isSitemapOpen' = IF isAiTriggered THEN isSitemapOpen ELSE FALSE
        /\ IF pendingUrls = <<>>
           THEN /\ isFullScanning' = FALSE
                /\ discoveredLinks' = discoveredLinks
                /\ IF isAiTriggered
                   THEN Respond(tasks, caller, FullScanPayload)
                   ELSE UNCHANGED <<tasks, sent>>
           ELSE /\ isFullScanning' = TRUE
                /\ discoveredLinks' =
                      updateLinkStatus(discoveredLinks, pendingUrls[1], "scanning", NoData)
                /\ tasks' = tasks
                      \cup {[BaseTask EXCEPT !.id = rid, !.kind = "run", !.phase = "scan",
                                             !.work = pendingUrls, !.idx = 1,
                                             !.parent = caller.id, !.epoch = resets]}
                      \cup (IF isAiTriggered THEN {[caller EXCEPT !.phase = "bulk"]} ELSE {})
                /\ sent' = sent

\* Lines 144-213 for an approved call, with the transcript already filtered.
Dispatch(functionCall, tid) ==
    LET t == [BaseTask EXCEPT !.id = tid, !.kind = "call", !.fc = functionCall,
                              !.epoch = resets]
        url == functionCall.args.url
    IN
    \/ /\ functionCall.name = "scanPages"
       /\ LET urlsToScan == functionCall.args.urls
              t1 == [t EXCEPT !.phase = "scans", !.work = urlsToScan,
                              !.pending = 1..Len(urlsToScan),
                              !.results = [i \in 1..Len(urlsToScan) |-> NoEntry]]
          IN  /\ discoveredLinks' = MarkScanning(discoveredLinks, urlsToScan)
              /\ IF urlsToScan = <<>>
                 THEN Respond(tasks, t, [NoPayload EXCEPT !.json = "array"])
                 ELSE tasks' = tasks \cup {t1} /\ sent' = sent
       /\ nextId' = tid + 1
       /\ UNCHANGED <<isSitemapOpen, isFullScanning, fullScanAbortController, analyzerCalls>>
    \/ /\ functionCall.name = "extractDataFromPage"
       /\ IF HasMarkup(discoveredLinks, url)
          THEN /\ analyzerCalls' = [analyzerCalls EXCEPT !.extractStructuredData = @ + 1]
               /\ Respond(tasks, t, [NoPayload EXCEPT !.json = "object", !.success = "true",
                                                      !.data = "extractedData"])
          ELSE /\ analyzerCalls' = analyzerCalls
               /\ Respond(tasks, t, NotScannedPayload)
       /\ nextId' = tid + 1
       /\ UNCHANGED <<discoveredLinks, isSitemapOpen, isFullScanning, fullScanAbortController>>
    \/ /\ functionCall.name = "performSeoAnalysis"
       /\ IF HasMarkup(discoveredLinks, url)
          THEN /\ analyzerCalls' = [analyzerCalls EXCEPT !.analyzeSeo = @ + 1]
               /\ Respond(tasks, t, [NoPayload EXCEPT !.json = "object", !.success = "true",
                                                      !.data = "analysisResult"])
          ELSE /\ analyzerCalls' = analyzerCalls
               /\ Respond(tasks, t, NotScannedPayload)
       /\ nextId' = tid + 1
       /\ UNCHANGED <<discoveredLinks, isSitemapOpen, isFullScanning, fullScanAbortController>>
    \/ /\ functionCall.name = "analyzeImageFromUrl"
       /\ tasks' = tasks \cup {[t EXCEPT !.phase = "image"]}
       /\ nextId' = tid + 1
       /\ UNCHANGED <<discoveredLinks, isSitemapOpen, isFullScanning, fullScanAbortController,
                      analyzerCalls, sent>>
    \/ /\ functionCall.name = "scanAllPendingPages"
       /\ FullScanStart(t, tid + 1, TRUE)
       /\ nextId' = tid + 2
       /\ UNCHANGED analyzerCalls
    \/ /\ functionCall.name \notin {"scanPages", "extractDataFromPage", "performSeoAnalysis",
                                    "analyzeImageFromUrl", "scanAllPendingPages"}
       /\ Respond(tasks, t, NoPayload)
       /\ nextId' = tid + 1
       /\ UNCHANGED <<discoveredLinks, isSitemapOpen, isFullScanning, fullScanAbortController,
                      analyzerCalls>>

handleFunctionCallResponse(approved, functionCall) ==
    IF ~approved
    THEN /\ chatHistory' = addMessage(RemoveProposal(chatHistory, functionCall),
                                      TextMessage(DeclineNotice, "bot"))
         /\ UNCHANGED <<status, error, discoveredLinks, discoveredAssets, isSitemapOpen,
                        isFullScanning, fullScanAbortController, aborted, chatRef,
                        currentUrlRef, tasks, nextId, nextRef, sent, analyzerCalls, resets,
                   streamsEnded, stoppedRuns, env>>
    ELSE /\ nextId <= MaxTasks
         /\ chatHistory' = RemoveProposal(chatHistory, functionCall)
         /\ Dispatch(functionCall, nextId)
         /\ UNCHANGED <<status, error, discoveredAssets, aborted, chatRef, currentUrlRef,
                        nextRef, resets,
                   streamsEnded, stoppedRuns, env>>

\* The proposals the transcript offers for a decision: a proposal turn whose
\* functionCall is undefined names no tool to decide on.
Proposals == {chatHistory[i].functionCall :
                 i \in {j \in 1..Len(chatHistory) :
                           /\ chatHistory[j].type = "function_call"
                           /\ chatHistory[j].functionCall # NoFunctionCall}}

\* Lines 320-326: Chat, rendered in stage chat, hands the decision on a proposal
\* of the transcript to handleFunctionCallResponse.
onFunctionCallResponse(approved, functionCall) ==
    /\ status = "chat"
    /\ functionCall \in Proposals
    /\ handleFunctionCallResponse(approved, functionCall)

\* Line 334: a single-page scan asked from the asset explorer, which lists the
\* links; it is offered for a link not scanned yet (pending or failed).
onManualScan(url) ==
    /\ isSitemapOpen
    /\ \E i \in 1..Len(discoveredLinks) :
          /\ discoveredLinks[i].v.url = url
          /\ discoveredLinks[i].v.status \in {"pending", "failed"}
    /\ handleFunctionCallResponse(
          TRUE, [ref |-> 0 - nextId, name |-> "scanPages", args |-> [NoArgs EXCEPT !.urls = <<url>>]])

\* Lines 153-164: the scan of urlsToScan[i] resolved; with it the last one, line 170
\* resumes and the result is sent.
PageScanResolve(t, i, r) ==
    /\ t \in tasks /\ t.kind = "call" /\ t.phase = "scans" /\ i \in t.pending
    /\ r \in ScanResults(env, t.work[i])
    /\ discoveredLinks' = ApplyScanned(discoveredLinks, t.work[i], r)
    /\ discoveredAssets' = addDiscoveredAssets(discoveredAssets, r.assets)
    /\ LET t1 == [t EXCEPT !.pending = @ \ {i},
                           !.results[i] = [NoEntry EXCEPT !.url = t.work[i], !.success = TRUE,
                                                          !.title = r.title,
                                                          !.content = r.textContent]]
       IN  IF t1.pending = {}
           THEN Respond(tasks \ {t}, t1,
                        [NoPayload EXCEPT !.json = "array", !.entries = t1.results])
           ELSE tasks' = (tasks \ {t}) \cup {t1} /\ sent' = sent
    /\ UNCHANGED <<status, error, chatHistory, isSitemapOpen, isFullScanning,
                   fullScanAbortController, aborted, chatRef, currentUrlRef, nextId, nextRef,
                   analyzerCalls, resets,
                   streamsEnded, stoppedRuns, env>>

\* Lines 165-168 without the try/catch: the rejection of one scan rejects
\* Promise.all, and the call goes on with the entries it has.
PageScanRejectAll(t, i) ==
    /\ t \in tasks /\ t.kind = "call" /\ t.phase = "scans" /\ i \in t.pending
    /\ discoveredLinks' = updateLinkStatus(discoveredLinks, t.work[i], "failed", NoData)
    /\ LET t1 == [t EXCEPT !.pending = {},
                           !.results[i] = [NoEntry EXCEPT !.url = t.work[i], !.success = FALSE,
                                                          !.error = "scan error"]]
       IN  Respond(tasks \ {t}, t1, [NoPayload EXCEPT !.json = "array", !.entries = t1.results])
    /\ UNCHANGED <<status, error, chatHistory, discoveredAssets, isSitemapOpen, isFullScanning,
                   fullScanAbortController, aborted, chatRef, currentUrlRef, nextId, nextRef,
                   analyzerCalls, resets,
                   streamsEnded, stoppedRuns, env>>

\* Lines 165-168: the scan of urlsToScan[i] rejected.
PageScanReject(t, i) ==
    /\ t \in tasks /\ t.kind = "call" /\ t.phase = "scans" /\ i \in t.pending
    /\ discoveredLinks' = updateLinkStatus(discoveredLinks, t.work[i], "failed", NoData)
    /\ LET t1 == [t EXCEPT !.pending = @ \ {i},
                           !.results[i] = [NoEntry EXCEPT !.url = t.work[i], !.success = FALSE,
                                                          !.error = "scan error"]]
       IN  IF t1.pending = {}
           THEN Respond(tasks \ {t}, t1,
                        [NoPayload EXCEPT !.json = "array", !.entries = t1.results])
           ELSE tasks' = (tasks \ {t}) \cup {t1} /\ sent' = sent
    /\ UNCHANGED <<status, error, chatHistory, discoveredAssets, isSitemapOpen, isFullScanning,
                   fullScanAbortController, aborted, chatRef, currentUrlRef, nextId, nextRef,
                   analyzerCalls, resets,
                   streamsEnded, stoppedRuns, env>>

\* Lines 199-208: fetchAndEncodeImage resolved (ok) or rejected.
ImageSettle(t, ok) ==
    /\ t \in tasks /\ t.kind = "call" /\ t.phase = "image"
    /\ Respond(tasks \ {t}, t,
               IF ok
               THEN [NoPayload EXCEPT !.json = "object", !.data = "base64Data",
                                      !.message = t.fc.args.prompt]
               ELSE [NoPayload EXCEPT !.json = "object", !.success = "false",
                                      !.error = "Failed to fetch or encode image"])
    /\ UNCHANGED <<status, error, chatHistory, discoveredLinks, discoveredAssets,
                   isSitemapOpen, isFullScanning, fullScanAbortController, aborted, chatRef,
                   currentUrlRef, nextId, nextRef, analyzerCalls, resets,
                   streamsEnded, stoppedRuns, env>>

(***************************************************************************)
(* handleFullScan, lines 236-271, and handleStopFullScan, lines 273-278.   *)
(***************************************************************************)
\* Line 335: a bulk scan started from the asset explorer, which shows the start
\* button while no bulk scan is flagged.
onFullScan ==
    /\ isSitemapOpen
    /\ ~isFullScanning
    /\ nextId <= MaxTasks
    /\ FullScanStart(BaseTask, nextId, FALSE)
    /\ nextId' = nextId + 1
    /\ UNCHANGED <<status, error, chatHistory, discoveredAssets, aborted, chatRef,
                   currentUrlRef, nextRef, analyzerCalls, resets,
                   streamsEnded, stoppedRuns, env>>

\* Lines 247-254 and 270 with the loop going over the links pending now rather
\* than over the list taken at line 243.
FullScanContinueLive(t, links1) ==
    LET left == PendingUrls(links1)
    IN  IF left # <<>> /\ t.id \notin aborted
        THEN /\ discoveredLinks' = updateLinkStatus(links1, left[1], "scanning", NoData)
             /\ tasks' = (tasks \ {t}) \cup
                          {[t EXCEPT !.idx = t.idx + 1, !.work = Append(t.work, left[1])]}
             /\ UNCHANGED <<isFullScanning, sent>>
        ELSE /\ discoveredLinks' = links1
             /\ isFullScanning' = FALSE
             /\ IF t.parent # 0
                THEN LET caller == CHOOSE c \in tasks : c.id = t.parent
                     IN  Respond(tasks \ {t, caller}, caller, FullScanPayload)
                ELSE tasks' = tasks \ {t} /\ sent' = sent

\* Lines 247-254 and 270: after the scan of work[idx] settled with link map links1,
\* the loop goes to the next url unless the signal of this run's controller is
\* aborted; when the loop ends, line 211 of an awaiting caller resumes.
FullScanContinue(t, links1) ==
    LET j == t.idx + 1
    IN  IF j <= Len(t.work) /\ t.id \notin aborted
        THEN /\ discoveredLinks' = updateLinkStatus(links1, t.work[j], "scanning", NoData)
             /\ tasks' = (tasks \ {t}) \cup {[t EXCEPT !.idx = j]}
             /\ UNCHANGED <<isFullScanning, sent>>
        ELSE /\ discoveredLinks' = links1
             /\ isFullScanning' = FALSE
             /\ IF t.parent # 0
                THEN LET caller == CHOOSE c \in tasks : c.id = t.parent
                     IN  Respond(tasks \ {t, caller}, caller, FullScanPayload)
                ELSE tasks' = tasks \ {t} /\ sent' = sent

\* Lines 255-264: the scan of the run's current url resolved.
FullScanResolve(t, r) ==
    /\ t \in tasks /\ t.kind = "run"
    /\ r \in ScanResults(env, t.work[t.idx])
    /\ discoveredAssets' = addDiscoveredAssets(discoveredAssets, r.assets)
    /\ FullScanContinue(t, ApplyScanned(discoveredLinks, t.work[t.idx], r))
    /\ UNCHANGED <<status, error, chatHistory, isSitemapOpen, fullScanAbortController,
                   aborted, chatRef, currentUrlRef, nextId, nextRef, analyzerCalls, resets,
                   streamsEnded, stoppedRuns, env>>

\* Lines 265-268: the scan of the run's current url rejected.
FullScanReject(t) ==
    /\ t \in tasks /\ t.kind = "run"
    /\ FullScanContinue(t, updateLinkStatus(discoveredLinks, t.work[t.idx], "failed", NoData))
    /\ UNCHANGED <<status, error, chatHistory, discoveredAssets, isSitemapOpen,
                   fullScanAbortController, aborted, chatRef, currentUrlRef, nextId, nextRef,
                   analyzerCalls, resets,
                   streamsEnded, stoppedRuns, env>>

\* Lines 273-278; the asset explorer shows the stop button while a bulk scan is flagged.
handleStopFullScan ==
    /\ isSitemapOpen
    /\ isFullScanning
    /\ aborted' = IF fullScanAbortController # 0
                  THEN aborted \cup {fullScanAbortController} ELSE aborted
    /\ isFullScanning' = FALSE
    /\ stoppedRuns' = stoppedRuns \cup {t.id : t \in {x \in tasks : x.kind = "run"}}
    /\ UNCHANGED <<status, error, chatHistory, discoveredLinks, discoveredAssets,
                   isSitemapOpen, fullScanAbortController, chatRef, currentUrlRef, tasks,
                   nextId, nextRef, sent, analyzerCalls, resets, streamsEnded, env>>

(***************************************************************************)
(* handleReset, lines 280-290, and the asset explorer's visibility.        *)
(***************************************************************************)
\* The New Scan button is rendered in stage chat (lines 299, 310).
handleReset ==
    /\ status = "chat"
    /\ resets < MaxResets
    /\ status' = "input"
    /\ error' = Null
    /\ chatHistory' = <<>>
    /\ discoveredLinks' = <<>>
    /\ discoveredAssets' = <<>>
    /\ isSitemapOpen' = FALSE
    /\ isFullScanning' = FALSE
    /\ chatRef' = 0
    /\ currentUrlRef' = ""
    /\ resets' = resets + 1
    /\ UNCHANGED <<fullScanAbortController, aborted, tasks, nextId, nextRef, sent,
                   analyzerCalls, streamsEnded, stoppedRuns, env>>

\* Lines 299-301 and 333.
setIsSitemapOpen(open) ==
    /\ IF open THEN status = "chat" /\ ~isSitemapOpen ELSE isSitemapOpen
    /\ isSitemapOpen' = open
    /\ UNCHANGED <<status, error, chatHistory, discoveredLinks, discoveredAssets,
                   isFullScanning, fullScanAbortController, aborted, chatRef, currentUrlRef,
                   tasks, nextId, nextRef, sent, analyzerCalls, resets,
                   streamsEnded, stoppedRuns, env>>

(***************************************************************************)
(* The specification.                                                      *)
(***************************************************************************)
Next ==
    \/ \E url \in SeedUrls : handleInitialScan(url)
    \/ \E t \in tasks : \E r \in ScanResults(env, t.url) : SeedScanResolve(t, r)
    \/ \E t \in tasks : SeedScanReject(t)
    \/ \E t \in tasks : \E chunk \in ReplyChunks(env) : StreamChunk(t, chunk)
    \/ \E t \in tasks : StreamEnd(t)
    \/ \E t \in tasks : StreamFail(t)
    \/ "text" \in User(env) /\ handleSendMessage(UserText)
    \/ "approve" \in User(env) /\ \E fc \in Proposals : onFunctionCallResponse(TRUE, fc)
    \/ "reject" \in User(env) /\ \E fc \in Proposals : onFunctionCallResponse(FALSE, fc)
    \/ "manual" \in User(env) /\ \E url \in Urls : onManualScan(url)
    \/ \E t \in tasks : \E i \in t.pending : \E r \in ScanResults(env, t.work[i]) :
          PageScanResolve(t, i, r)
    \/ \E t \in tasks : \E i \in t.pending : PageScanReject(t, i)
    \/ \E t \in tasks : \E ok \in BOOLEAN : ImageSettle(t, ok)
    \/ "bulk" \in User(env) /\ onFullScan
    \/ \E t \in {x \in tasks : x.kind = "run"} : \E r \in ScanResults(env, t.work[t.idx]) :
          FullScanResolve(t, r)
    \/ \E t \in tasks : FullScanReject(t)
    \/ "stop" \in User(env) /\ handleStopFullScan
    \/ "reset" \in User(env) /\ handleReset
    \/ "explorer" \in User(env) /\ \E open \in BOOLEAN : setIsSitemapOpen(open)

Spec == Init /\ [][Next]_vars

\* The collaborator call that invocation id is suspended at settles: the page scan,
\* the image fetch or the reply stream ends, successfully or not.
Settle(id) ==
    \E t \in {x \in tasks : x.id = id} :
        \/ \E r \in ScanResults(env, t.url) : SeedScanResolve(t, r)
        \/ SeedScanReject(t)
        \/ StreamEnd(t)
        \/ StreamFail(t)
        \/ \E i \in t.pending : \E r \in ScanResults(env, t.work[i]) : PageScanResolve(t, i, r)
        \/ \E i \in t.pending : PageScanReject(t, i)
        \/ \E ok \in BOOLEAN : ImageSettle(t, ok)
        \/ t.kind = "run" /\ \E r \in ScanResults(env, t.work[t.idx]) : FullScanResolve(t, r)
        \/ FullScanReject(t)

\* The identities an invocation may have.
TaskIds == 1..(MaxTasks + 1)

\* Every collaborator call terminates.
FairSpec == Spec /\ \A id \in TaskIds : WF_vars(Settle(id))

\* The stage and every link status are values of their types of types.ts.
TypeOK ==
    /\ status \in AppStatus
    /\ \A i \in 1..Len(discoveredLinks) : discoveredLinks[i].v.status \in LinkStatus

(***************************************************************************)
(* Properties.                                                             *)
(***************************************************************************)
StatusOf(m, u) == MapGet(m, u).status

\* The step approves (dispatches) proposal fc of the transcript.
ApprovedNow(fc) == fc \in Proposals /\ fc \notin Proposals' /\ nextId' > nextId

\* The step rejects proposal fc of the transcript.
RejectedNow(fc) ==
    fc \in Proposals /\ fc \notin Proposals' /\ nextId' = nextId /\ resets' = resets

\* The invocations of handleFunctionCallResponse(true, ...) the step begins.
NewCalls == {t \in tasks' : t.kind = "call" /\ t.id >= nextId}

WithoutTurn(h, i) == SubSeq(h, 1, i - 1) \o SubSeq(h, i + 1, Len(h))

ForwardStatusSteps ==
    {<<"pending", "scanning">>, <<"scanning", "scanned">>, <<"scanning", "failed">>,
     <<"failed", "scanning">>}

\* C1: every change of the status of a link is pending->scanning, scanning->scanned,
\* scanning->failed or failed->scanning.
C1_OnlyForwardStatusSteps ==
    [][\A u \in MapKeys(discoveredLinks) \cap MapKeys(discoveredLinks') :
          StatusOf(discoveredLinks, u) # StatusOf(discoveredLinks', u)
          => <<StatusOf(discoveredLinks, u), StatusOf(discoveredLinks', u)>> \in ForwardStatusSteps
      ]_vars

\* C2: a bulk-scan run that was active when stop was invoked starts no scan of a
\* further url of its work list.
C2_NoScanStartsAfterStop ==
    [][\A t \in tasks : \A t2 \in tasks' :
          (t.kind = "run" /\ t.id \in stoppedRuns /\ t2.id = t.id) => t2.idx = t.idx
      ]_vars

\* C3: approving a scanAllPendingPages proposal sends its tool result at once, in
\* the step that starts the bulk scan, without waiting for the run.
C3_BulkAcknowledgedAtOnce ==
    [][\A fc \in Proposals :
          (ApprovedNow(fc) /\ fc.name = "scanAllPendingPages")
          => /\ Len(sent') = Len(sent) + 1
             /\ sent'[Len(sent')].kind = "functionResponse"
             /\ sent'[Len(sent')].ref = fc.ref
      ]_vars

\* C4: rejecting a proposal removes that very turn and no other, appends the decline
\* turn, starts no invocation, sends nothing and leaves links and assets alone.
C4_RejectRemovesOnlyThatProposal ==
    [][\A fc \in Proposals :
          RejectedNow(fc)
          => /\ \E i \in 1..Len(chatHistory) :
                   /\ chatHistory[i].type = "function_call"
                   /\ chatHistory[i].functionCall = fc
                   /\ chatHistory' = Append(WithoutTurn(chatHistory, i),
                                            TextMessage(DeclineNotice, "bot"))
             /\ sent' = sent
             /\ tasks' = tasks
             /\ analyzerCalls' = analyzerCalls
             /\ discoveredLinks' = discoveredLinks
             /\ discoveredAssets' = discoveredAssets
      ]_vars

\* A proposal was rejected while another proposal stood before it in the transcript.
C4_Witness ==
    \E i, j \in 1..Len(chatHistory) :
        /\ i < j
        /\ chatHistory[i].type = "function_call"
        /\ chatHistory[j] = TextMessage(DeclineNotice, "bot")

\* C5: approving a proposal removes its turn (and no other proposal) and begins
\* exactly one dispatch, of that call; a dispatch of a proposed call begins only by
\* approving its turn, and a turn once removed never comes back.
C5_ApprovedProposalDispatchedOnce ==
    [][/\ \A fc \in Proposals :
             ApprovedNow(fc)
             => /\ Proposals' = Proposals \ {fc}
                /\ Cardinality(NewCalls) = 1
                /\ \A t \in NewCalls : t.fc = fc
       /\ \A t \in NewCalls : t.fc.ref > 0 => (t.fc \in Proposals /\ t.fc \notin Proposals')
       /\ \A fc \in Proposals' \ Proposals : fc.ref = nextRef /\ nextRef' = nextRef + 1
      ]_vars

\* A proposed call is being dispatched.
C5_Witness == \E t \in tasks : t.kind = "call" /\ t.fc.ref > 0 /\ t.phase # "stream"

\* The invocation of handleFunctionCallResponse with identity id awaits a collaborator.
InFlight(id) ==
    \E t \in tasks : t.id = id /\ t.kind = "call" /\ t.phase \in {"scans", "image", "bulk"}

\* The tool results sent for function-call object ref.
ResultsFor(ref) ==
    {i \in 1..Len(sent) : sent[i].kind = "functionResponse" /\ sent[i].ref = ref}

Answered(id) == \E i \in 1..Len(sent) : sent[i].kind = "functionResponse" /\ sent[i].tid = id

\* The identities an invocation of handleFunctionCallResponse may have: the first
\* invocation of a session is handleInitialScan, and the last identity can only
\* go to the run an approved scanAllPendingPages starts.
CallIds == TaskIds \ {1, MaxTasks + 1}

\* The session was reset after invocation id began.
ResetSince(id) == \E t \in tasks : t.id = id /\ t.epoch < resets

\* C6: an approved call is answered in the approving step or is in flight after it;
\* a call in flight is eventually answered unless the session is reset meanwhile;
\* and no function-call object is ever answered twice.
C6_ApprovedCallAnsweredOnce ==
    /\ [][\A fc \in Proposals :
             ApprovedNow(fc)
             => \/ /\ Len(sent') = Len(sent) + 1
                   /\ sent'[Len(sent')].kind = "functionResponse"
                   /\ sent'[Len(sent')].ref = fc.ref
                \/ \E t \in tasks' : t.fc = fc /\ InFlight(t.id)'
         ]_vars
    /\ \A id \in CallIds : InFlight(id) ~> (Answered(id) \/ ResetSince(id))
    /\ [](/\ \A ref \in 1..MaxRefs : Cardinality(ResultsFor(ref)) <= 1
          /\ \A t \in tasks : t.kind = "call" => t.id \in CallIds)

\* A call naming no recognized tool was approved and answered.
C6_Witness ==
    \E i \in 1..Len(sent) :
        /\ sent[i].kind = "functionResponse"
        /\ sent[i].name \notin {"scanPages", "extractDataFromPage", "performSeoAnalysis",
                                "analyzeImageFromUrl", "scanAllPendingPages"}

\* The text fragments of the chunks s, concatenated in chunk and part order.
RECURSIVE AllText(_)
AllText(s) ==
    IF s = <<>> THEN <<>>
    ELSE LET parts == Head(s).parts
             RECURSIVE Join(_)
             Join(ps) == IF ps = <<>> THEN <<>> ELSE Head(ps).text \o Join(Tail(ps))
         IN  Join(parts) \o AllText(Tail(s))

\* The chunks of s that carry a non-empty tool-call list.
WithCalls(s) ==
    {i \in 1..Len(s) : s[i].functionCalls # None /\ s[i].functionCalls[1] # <<>>}

\* The tool-call list of the last chunk of s that carries a non-empty one.
LastCalls(s) == s[CHOOSE i \in WithCalls(s) : \A j \in WithCalls(s) : j <= i].functionCalls[1]

\* The step consumes the reply stream of invocation t to its end.
StreamEndsNow(t) == t.phase = "stream" /\ t \notin tasks' /\ streamsEnded' = streamsEnded + 1

\* The turns the step appends.
NewTurns == SubSeq(chatHistory', Len(chatHistory) + 1, Len(chatHistory'))

\* The turns a reply made of chunks s is to yield, leaving the proposed call open.
ExpectedTurns(s) ==
    LET text == Trim(AllText(s))
    IN  (IF text # <<>> THEN <<TextMessage(text, "bot")>> ELSE <<>>)
        \o (IF WithCalls(s) # {} THEN <<FunctionCallMessage(NoFunctionCall)>> ELSE <<>>)
        \o (IF text = <<>> /\ WithCalls(s) = {}
            THEN <<TextMessage(EmptyResponseNotice, "bot")>> ELSE <<>>)

\* C7: a chunk of a reply appends no turn; the end of the reply appends the trimmed
\* text as a turn iff it is not empty, then a proposal iff a tool call was captured,
\* and the empty-response notice iff there is neither.
C7_TurnsOfAReply ==
    [][\A t \in tasks :
          /\ (\E t2 \in tasks' : t2.id = t.id /\ Len(t2.seen) > Len(t.seen))
             => chatHistory' = chatHistory
          /\ StreamEndsNow(t)
             => /\ Len(chatHistory') >= Len(chatHistory)
                /\ SubSeq(chatHistory', 1, Len(chatHistory)) = chatHistory
                /\ [i \in 1..Len(NewTurns) |-> [NewTurns[i] EXCEPT !.functionCall = NoFunctionCall]]
                      = ExpectedTurns(t.seen)
      ]_vars

\* C8: a reply yields a proposal iff some chunk carried a non-empty tool-call list,
\* and the proposal names the first call of the last such chunk.
C8_ProposalIsFirstOfLastList ==
    [][\A t \in tasks :
          StreamEndsNow(t)
          => LET props == {i \in 1..Len(NewTurns) : NewTurns[i].type = "function_call"}
             IN  /\ (props # {}) = (WithCalls(t.seen) # {})
                 /\ \A i \in props :
                       /\ NewTurns[i].functionCall.name = LastCalls(t.seen)[1].name
                       /\ NewTurns[i].functionCall.args = LastCalls(t.seen)[1].args
      ]_vars

\* The link record of url is absent, not scanned, or holds no markup.
NoUsableMarkup(links, url) ==
    \A i \in 1..Len(links) :
        links[i].k = url
        => links[i].v.status # "scanned" \/ links[i].v.htmlContent \in {Undefined, ""}

\* C9: approving an extraction or SEO call on a page that is absent, not scanned or
\* without markup sends success: false as its result, calls no analyzer, sets no
\* error and leaves links and assets alone.
C9_NoAnalysisWithoutMarkup ==
    [][\A fc \in Proposals :
          (/\ ApprovedNow(fc)
           /\ fc.name \in {"extractDataFromPage", "performSeoAnalysis"}
           /\ NoUsableMarkup(discoveredLinks, fc.args.url))
          => /\ Len(sent') = Len(sent) + 1
             /\ sent'[Len(sent')].kind = "functionResponse"
             /\ sent'[Len(sent')].ref = fc.ref
             /\ sent'[Len(sent')].result.success = "false"
             /\ analyzerCalls' = analyzerCalls
             /\ error' = error
             /\ discoveredLinks' = discoveredLinks
             /\ discoveredAssets' = discoveredAssets
      ]_vars

\* An extraction or SEO call on a scanned page with empty markup was answered.
C9_Witness ==
    /\ \E i \in 1..Len(sent) :
          /\ sent[i].name \in {"extractDataFromPage", "performSeoAnalysis"}
          /\ sent[i].result.success = "false"
    /\ \E u \in ToolUrls :
          /\ MapHas(discoveredLinks, u)
          /\ MapGet(discoveredLinks, u).status = "scanned"
          /\ MapGet(discoveredLinks, u).htmlContent = ""
    /\ analyzerCalls = [extractStructuredData |-> 0, analyzeSeo |-> 0]

\* The page scans that settle in the step, as pairs of invocation and url; a seed
\* scan counts when it sets the link map.
SettledScans ==
    {<<t, t.url>> : t \in {x \in tasks : /\ x.kind = "seed" /\ x.phase = "scan" /\ x \notin tasks'
                                          /\ discoveredLinks' # discoveredLinks}}
    \cup {<<t, t.work[t.idx]>> :
             t \in {x \in tasks : x.kind = "run" /\ \A y \in tasks' : y.id = x.id => y.idx # x.idx}}
    \cup UNION {{<<t, t.work[i]>> :
                    i \in {j \in t.pending :
                             \A y \in tasks' : (y.id = t.id /\ y.phase = "scans")
                                               => j \notin y.pending}} :
                  t \in {x \in tasks : x.kind = "call" /\ x.phase = "scans"}}

C11_AssetsFirstWriteWins ==
    [][resets' = resets
       => \A i \in 1..Len(discoveredAssets) :
             /\ MapHas(discoveredAssets', discoveredAssets[i].k)
             /\ MapGet(discoveredAssets', discoveredAssets[i].k) = discoveredAssets[i].v
      ]_vars

\* Pages B and C, which both carry the asset the seed page registered, are scanned.
C11_Witness ==
    /\ env = "assets"
    /\ \A u \in {"B", "C"} : MapHas(discoveredLinks, u) /\ StatusOf(discoveredLinks, u) = "scanned"
    /\ \E a \in AssetUrls :
          MapHas(discoveredAssets, a) /\ MapGet(discoveredAssets, a).sourcePage = "A"

\* The scanPages invocations that act in the step: one that begins, or one for
\* which the scan of a requested url settles.
ScanPagesActing ==
    {t \in NewCalls : t.fc.name = "scanPages"}
    \cup {t \in tasks : t.kind = "call" /\ t.phase = "scans" /\ t \notin tasks'}

\* The urls invocation t was asked to scan.
Requested(t) == {t.fc.args.urls[i] : i \in 1..Len(t.fc.args.urls)}

\* C12: a step of an approved scanPages(urls) call leaves every link record of a
\* url not in urls as it was, and a key it adds that is not in urls is a pending
\* placeholder.
C12_ScanPagesTouchesOnlyItsUrls ==
    [][\A t \in ScanPagesActing :
          /\ \A k \in MapKeys(discoveredLinks) \ Requested(t) :
                MapHas(discoveredLinks', k)
                /\ MapGet(discoveredLinks', k) = MapGet(discoveredLinks, k)
          /\ \A k \in MapKeys(discoveredLinks') \ (MapKeys(discoveredLinks) \cup Requested(t)) :
                MapGet(discoveredLinks', k) = PendingLink(k)
      ]_vars

\* scanPages(["B"]) was approved and answered: B is scanned, and C, which the seed
\* page listed too, is still the pending placeholder.
C12_Witness ==
    /\ \E i \in 1..Len(sent) :
          /\ sent[i].kind = "functionResponse"
          /\ sent[i].ref > 0
          /\ sent[i].name = "scanPages"
          /\ Len(sent[i].result.entries) = 1
          /\ sent[i].result.entries[1].url = "B"
    /\ MapHas(discoveredLinks, "B") /\ StatusOf(discoveredLinks, "B") = "scanned"
    /\ MapHas(discoveredLinks, "C") /\ MapGet(discoveredLinks, "C") = PendingLink("C")

\* The step is the failure of the seed scan of invocation t: scanPage rejected.
SeedScanFailsNow(t) ==
    /\ t.kind = "seed" /\ t.phase = "scan"
    /\ \A t2 \in tasks' : t2.id # t.id
    /\ error' = "scan error"

\* C13: when the seed scan fails the stage is input again with an error set, links,
\* assets and transcript are as they were and nothing is sent to the planner.
C13_FailedSeedScanLeavesNoTrace ==
    [][\A t \in tasks :
          SeedScanFailsNow(t)
          => /\ status' = "input"
             /\ error' # Null
             /\ discoveredLinks' = discoveredLinks
             /\ discoveredAssets' = discoveredAssets
             /\ chatHistory' = chatHistory
             /\ sent' = sent
      ]_vars

\* A seed scan has failed.
C13_Witness == status = "input" /\ error = "scan error" /\ tasks = {} /\ sent = <<>>

\* C14: while no seed url was submitted since the last reset (currentUrlRef is still
\* ''), the link map, the asset map and the transcript are empty.
C14_EmptyAfterReset ==
    currentUrlRef = ""
    => discoveredLinks = <<>> /\ discoveredAssets = <<>> /\ chatHistory = <<>>

\* C15: within a session (the conversation session of chatRef stays, no reset) a
\* scanned link is not made pending and no record is replaced by the pending
\* placeholder.
C15_NoRegressionToPending ==
    [][(chatRef' = chatRef /\ resets' = resets)
       => \A k \in MapKeys(discoveredLinks) \cap MapKeys(discoveredLinks') :
             /\ StatusOf(discoveredLinks, k) = "scanned"
                => StatusOf(discoveredLinks', k) # "pending"
             /\ MapGet(discoveredLinks', k) = PendingLink(k)
                => MapGet(discoveredLinks, k) = PendingLink(k)
      ]_vars

\* The urls of the links of m that are pending.
PendingSet(m) == {m[i].v.url : i \in {j \in 1..Len(m) : m[j].v.status = "pending"}}

\* The urls of a work list.
WorkSet(work) == {work[i] : i \in 1..Len(work)}

\* C16: the work list of a bulk-scan run is the links pending when it starts and
\* never changes; a step of the run touches only the records of its work list, and
\* a key it adds is a pending placeholder.
C16_BulkWorkListIsASnapshot ==
    [][/\ \A t \in {x \in tasks' : x.kind = "run"} :
             /\ (\A x \in tasks : x.id # t.id)
                => /\ WorkSet(t.work) = PendingSet(discoveredLinks)
                   /\ Len(t.work) = Cardinality(PendingSet(discoveredLinks))
             /\ \A x \in tasks : x.id = t.id => x.work = t.work
       /\ \A t \in {x \in tasks : x.kind = "run" /\ x \notin tasks'} :
             /\ \A k \in MapKeys(discoveredLinks) \ WorkSet(t.work) :
                   MapHas(discoveredLinks', k)
                   /\ MapGet(discoveredLinks', k) = MapGet(discoveredLinks, k)
             /\ \A k \in MapKeys(discoveredLinks') \ (MapKeys(discoveredLinks) \cup WorkSet(t.work)) :
                   MapGet(discoveredLinks', k) = PendingLink(k)
      ]_vars

\* A bulk scan that was never stopped has ended, and C, discovered after it began,
\* is still the pending placeholder.
C16_Witness ==
    /\ env = "bulk"
    /\ fullScanAbortController # 0 /\ aborted = {}
    /\ \A t \in tasks : t.kind \notin {"run", "call"}
    /\ MapHas(discoveredLinks, "B") /\ StatusOf(discoveredLinks, "B") = "scanned"
    /\ MapHas(discoveredLinks, "C") /\ MapGet(discoveredLinks, "C") = PendingLink("C")

\* C17: the result of a scanPages call is sent in the step that settles its last
\* url and has one entry per requested url, in order; a scan that fails marks only
\* its url failed and leaves the sibling scans of the call in flight; a bulk-scan
\* run that is not aborted goes on to its next url whatever the scan's outcome.
C17_FanOutSettlesEveryUrl ==
    [][/\ (/\ Len(sent') = Len(sent) + 1
           /\ sent'[Len(sent')].kind = "functionResponse"
           /\ sent'[Len(sent')].name = "scanPages")
          => LET m == sent'[Len(sent')]
             IN  /\ \A t \in tasks : t.id = m.tid => Cardinality(t.pending) = 1
                 /\ \E t \in tasks' :
                       /\ t.id = m.tid /\ t.pending = {}
                       /\ Len(m.result.entries) = Len(t.fc.args.urls)
                       /\ \A i \in 1..Len(t.fc.args.urls) :
                             m.result.entries[i].url = t.fc.args.urls[i]
       /\ \A t \in tasks : \A t2 \in tasks' :
             (t.id = t2.id /\ t.kind = "call" /\ t.phase = "scans")
             => \A i \in t.pending \ t2.pending :
                   /\ t2.pending = t.pending \ {i}
                   /\ ~t2.results[i].success
                      => /\ StatusOf(discoveredLinks', t.work[i]) = "failed"
                         /\ MapKeys(discoveredLinks') = MapKeys(discoveredLinks) \cup {t.work[i]}
                         /\ \A k \in MapKeys(discoveredLinks) \ {t.work[i]} :
                               MapGet(discoveredLinks', k) = MapGet(discoveredLinks, k)
       /\ \A t \in {x \in tasks : x.kind = "run" /\ x \notin tasks'} :
             (t.idx < Len(t.work) /\ t.id \notin aborted)
             => \E t2 \in tasks' : t2.id = t.id /\ t2.idx = t.idx + 1 /\ t2.work = t.work
      ]_vars

\* scanPages(["B", "C"]) was answered with the scan of B failed and that of C
\* succeeded; B is failed and C is scanned.
C17_Witness ==
    /\ \E i \in 1..Len(sent) :
          /\ sent[i].name = "scanPages"
          /\ Len(sent[i].result.entries) = 2
          /\ ~sent[i].result.entries[1].success
          /\ sent[i].result.entries[2].success
    /\ MapHas(discoveredLinks, "B") /\ StatusOf(discoveredLinks, "B") = "failed"
    /\ MapHas(discoveredLinks, "C") /\ StatusOf(discoveredLinks, "C") = "scanned"

\* C18: a status update for a url that is not a key of the link mapping leaves
\* the mapping unchanged, so every record of the link mapping carries its own key
\* as its url.
C18_EveryRecordCarriesItsKey ==
    \A i \in 1..Len(discoveredLinks) : discoveredLinks[i].v.url = discoveredLinks[i].k

\* C19: whenever the stage is input, the link mapping and the asset mapping are
\* empty.
C19_InputStageHasEmptyFrontier ==
    status = "input" => discoveredLinks = <<>> /\ discoveredAssets = <<>>

\* The invocations whose exchange is in flight on conversation session c: their
\* message was sent on c and its reply stream is still being consumed.
Exchanging(c) ==
    {t \in tasks : /\ t.phase = "stream"
                   /\ \E i \in 1..Len(sent) : sent[i].tid = t.id /\ sent[i].session = c}

\* C20: at most one planner exchange is in flight on a conversation session at any
\* time.
C20_OneExchangeInFlight ==
    \A c \in TaskIds : Cardinality(Exchanging(c)) <= 1

====
